---- MODULE Spec2Model ----
(***************************************************************************)
(* Model of the multi-key Gemini invocation manager of src/VanillaRag.py:  *)
(* GeminiAPIManager (quota tracker + credential rotator) and               *)
(* VanillaRAG._invoke_with_gemini (the retry loop).                        *)
(*                                                                         *)
(* Python indices are 0-based.  api_keys is kept as a TLA+ sequence, so    *)
(* the Python expression api_keys[i] is api_keys[i + 1] here; the request  *)
(* history is a function over 0 .. N-1 as the Python dict is.              *)
(* datetime.now() is the variable clock, read afresh by every operation    *)
(* that calls it and advanced by the environment (Tick) between any two    *)
(* steps.                                                                  *)
(***************************************************************************)
EXTENDS Integers, Sequences, FiniteSets, TLC

\* ------------------------------------------------------------- constants
\* API_QUOTA_LIMIT (requests per window) and API_QUOTA_WINDOW (seconds).
\* The source sets them to 10 and 60; the model keeps their roles and
\* scales the values, so that a credential fills its budget and a recorded
\* request ages out within MaxClock ticks of the clock.
API_QUOTA_LIMIT == 1
API_QUOTA_WINDOW == 2
\* GEMINI_API_KEYS has three entries (GEMINI_API_KEY_1 .. _3)
NumKeySlots == 3

\* ---------------------------------------------------------------- bounds
\* datetime.now() ranges over 0 .. MaxClock
MaxClock == 3
\* invocations begun in a run in which callers do not wait for one another:
\* one more than it takes to put a credential one request over its budget
MaxConcInvocations == API_QUOTA_LIMIT + 2

\* the callers that may be inside _invoke_with_gemini
Procs == {1, 2}

\* os.getenv gives None for an unset variable and "" for a blank one
NoneVal == "<None>"
Blank == ""
KeyOfSlot(s) == IF s = 1 THEN "KEY_1" ELSE IF s = 2 THEN "KEY_2" ELSE "KEY_3"

\* the possible values of the list GEMINI_API_KEYS
\* (per slot: 0 unset, 1 blank, 2 set)
KeyLists == [1 .. NumKeySlots -> {0, 1, 2}]
RawKey(l, s) == IF l[s] = 0 THEN NoneVal ELSE IF l[s] = 1 THEN Blank ELSE KeyOfSlot(s)
GEMINI_API_KEYS(l) == [s \in 1 .. NumKeySlots |-> RawKey(l, s)]

\* mutant: "if k is not None", a blank secret is kept
Truthy_not_none(k) == k # NoneVal

\* Python truthiness of an optional string
Truthy(k) == k # NoneVal /\ k # Blank

\* [k for k in api_keys if k]
RECURSIVE FilterKeys(_)
FilterKeys(keys) ==
    IF keys = <<>> THEN <<>>
    ELSE IF Truthy(Head(keys)) THEN <<Head(keys)>> \o FilterKeys(Tail(keys))
    ELSE FilterKeys(Tail(keys))

\* ---------------------------------------------------------------- values
\* An exception: str(e).lower() as a sequence of words, and the loop attempt
\* that raised it (the identity of the exception object).
NoneErr == [msg |-> <<>>, attempt |-> 0]
AllExceededMsg == <<"all", "gemini", "apis", "have", "exceeded", "quota">>
GenericMsg == <<"could", "not", "get", "response", "from", "any", "gemini", "api">>
RateLimitMsg == <<"429", "rate", "limit">>
MalformedMsg == <<"malformed", "response">>
BackendErrors == {RateLimitMsg, MalformedMsg}

\* "quota" in msg or "rate" in msg or "429" in msg
HasQuotaMarker(msg) ==
    \E k \in 1 .. Len(msg) : msg[k] \in {"quota", "rate", "429"}

NoResponse == [key |-> NoneVal, attempt |-> 0]
NoOutcome == [kind |-> "none", response |-> NoResponse, error |-> NoneErr]

VARIABLES
    api_keys,             \* GeminiAPIManager.api_keys
    config_error,         \* __init__ raised ValueError
    current_api_index,    \* GeminiAPIManager.current_api_index
    api_request_history,  \* GeminiAPIManager.api_request_history
    clock,                \* datetime.now()
    pc,                   \* per caller: position in _invoke_with_gemini
    attempt,              \* iterations of the for loop begun so far
    last_error,
    current_index,
    current_key,
    response,
    rot_i,                \* iterations of rotate_to_next_api's loop begun
    original_index,
    next_index,
    rot_ret,              \* value returned by rotate_to_next_api
    ret_to,               \* call site rotate_to_next_api returns to
    outcome,              \* what the caller of _invoke_with_gemini gets
    calls,                \* history: backend calls of the invocation
    probes,               \* history: probes of the rotate in progress
    inv_cursor,           \* history: the rotation cursor at entry
    inv_free,             \* history: credentials under quota at entry
    inv_history,          \* history: the logs at entry
    inv_exhausted,        \* history: attempt whose quota check gave up
    rot_free,             \* history: credentials under quota when the
                          \* rotate in progress was called
    skips,                \* history: the quota checks of the invocation that
                          \* found the credential over quota
    left_cursor,          \* history: the cursor when the last invocation ended
    left_history,         \* history: the logs when the last invocation ended
    started,              \* invocations begun by callers that do not wait
                          \* for one another
    env_keys              \* history: the list the manager was constructed
                          \* from, kept until the first invocation begins

mgr == <<api_keys, config_error, current_api_index, api_request_history>>
locals == <<attempt, last_error, current_index, current_key, response,
            rot_i, original_index, next_index, rot_ret, ret_to, outcome>>
ghosts == <<calls, probes, inv_cursor, inv_free, inv_history, inv_exhausted, rot_free,
            skips, left_cursor, left_history>>
vars == <<mgr, clock, pc, locals, ghosts, started, env_keys>>

N == Len(api_keys)
Idx == 0 .. (N - 1)

\* ------------------------------------------------------- GeminiAPIManager
get_current_api_key == api_keys[current_api_index + 1]

\* mutant: t >= cutoff_time, an entry aged exactly the window still counts
UsageAt_inclusive(log, now) ==
    Cardinality({k \in 1 .. Len(log) : log[k] >= now - API_QUOTA_WINDOW})

\* sum(1 for t in log if t > now - timedelta(seconds=API_QUOTA_WINDOW))
UsageAt(log, now) ==
    Cardinality({k \in 1 .. Len(log) : log[k] > now - API_QUOTA_WINDOW})

get_quota_usage(api_index) == UsageAt(api_request_history[api_index], clock)

\* mutant: the comparison is > instead of >=
is_quota_exceeded_gt(api_index) == get_quota_usage(api_index) > API_QUOTA_LIMIT

is_quota_exceeded(api_index) == get_quota_usage(api_index) >= API_QUOTA_LIMIT

\* mutant: the timestamp goes to the log of the next credential
record_request_next(api_index) ==
    [api_request_history EXCEPT ![(api_index + 1) % N] = Append(@, clock)]

record_request(api_index) ==
    [api_request_history EXCEPT ![api_index] = Append(@, clock)]

\* position (0-based) of a credential value in api_keys
KeyIndex(k) == CHOOSE i \in Idx : api_keys[i + 1] = k

FreeNow == {i \in Idx : ~is_quota_exceeded(i)}

\* ------------------------------------------------------------------ Init
InitLocal(v) == [p \in Procs |-> v]

\* GeminiAPIManager(GEMINI_API_KEYS), for every value the list can have
Init ==
    \E l \in KeyLists :
        /\ api_keys = FilterKeys(GEMINI_API_KEYS(l))
        /\ config_error = (FilterKeys(GEMINI_API_KEYS(l)) = <<>>)
        /\ current_api_index = 0
        /\ api_request_history =
               [i \in 0 .. (Len(FilterKeys(GEMINI_API_KEYS(l))) - 1) |-> <<>>]
        /\ clock = 0
        /\ pc = InitLocal("idle")
        /\ attempt = InitLocal(0)
        /\ last_error = InitLocal(NoneErr)
        /\ current_index = InitLocal(0)
        /\ current_key = InitLocal(NoneVal)
        /\ response = InitLocal(NoResponse)
        /\ rot_i = InitLocal(0)
        /\ original_index = InitLocal(0)
        /\ next_index = InitLocal(0)
        /\ rot_ret = InitLocal(FALSE)
        /\ ret_to = InitLocal("none")
        /\ outcome = InitLocal(NoOutcome)
        /\ calls = InitLocal(<<>>)
        /\ probes = InitLocal(<<>>)
        /\ inv_cursor = InitLocal(0)
        /\ inv_free = InitLocal({})
        /\ inv_history = InitLocal(<<>>)
        /\ inv_exhausted = InitLocal(0)
        /\ rot_free = InitLocal({})
        /\ skips = InitLocal(<<>>)
        /\ left_cursor = 0
        /\ left_history =
               [i \in 0 .. (Len(FilterKeys(GEMINI_API_KEYS(l))) - 1) |-> <<>>]
        /\ started = 0
        /\ env_keys = GEMINI_API_KEYS(l)

\* ------------------------------------------------------------ environment
\* time passes
Tick ==
    /\ clock < MaxClock
    /\ clock' = clock + 1
    /\ UNCHANGED <<mgr, pc, locals>>

\* --------------------------------------------------- control flow helpers
\* Locals the code does not read again are put back to their initial value
\* when they go out of use; the values the code reads are never touched.

\* mutant: the generic exception is raised whatever last_error holds
AfterLoop_generic(p, err) ==
    /\ pc' = [pc EXCEPT ![p] = "done"]
    /\ outcome' = [outcome EXCEPT ![p] =
           [kind |-> "raised", response |-> NoResponse,
            error |-> [msg |-> GenericMsg, attempt |-> attempt[p]]]]
    /\ UNCHANGED attempt

\* the statements after the loop:
\*     if last_error is not None: raise last_error
\*     raise Exception("Could not get response from any Gemini API")
AfterLoop(p, err) ==
    /\ pc' = [pc EXCEPT ![p] = "done"]
    /\ outcome' = [outcome EXCEPT ![p] =
           IF err # NoneErr
           THEN [kind |-> "raised", response |-> NoResponse, error |-> err]
           ELSE [kind |-> "raised", response |-> NoResponse,
                 error |-> [msg |-> GenericMsg, attempt |-> attempt[p]]]]
    /\ UNCHANGED attempt

\* mutant: range(max_retries + 1)
ForLoop_one_more(p, err) ==
    IF attempt[p] <= N
    THEN /\ attempt' = [attempt EXCEPT ![p] = @ + 1]
         /\ pc' = [pc EXCEPT ![p] = "read_index"]
         /\ UNCHANGED outcome
    ELSE AfterLoop(p, err)

\* mutant: range(max_retries - 1)
ForLoop_one_less(p, err) ==
    IF attempt[p] < N - 1
    THEN /\ attempt' = [attempt EXCEPT ![p] = @ + 1]
         /\ pc' = [pc EXCEPT ![p] = "read_index"]
         /\ UNCHANGED outcome
    ELSE AfterLoop(p, err)

\* the head of "for _ in range(max_retries)"; the range used up, the
\* statements after the loop
ForLoop(p, err) ==
    IF attempt[p] < N
    THEN /\ attempt' = [attempt EXCEPT ![p] = @ + 1]
         /\ pc' = [pc EXCEPT ![p] = "read_index"]
         /\ UNCHANGED outcome
    ELSE AfterLoop(p, err)

\* the call self.gemini_manager.rotate_to_next_api() from the site `site`:
\*     original_index = self.current_api_index
EnterRotate(p, site) ==
    /\ original_index' = [original_index EXCEPT ![p] = current_api_index]
    /\ rot_i' = [rot_i EXCEPT ![p] = 0]
    /\ ret_to' = [ret_to EXCEPT ![p] = site]
    /\ pc' = [pc EXCEPT ![p] = "rot_for"]

\* rotate_to_next_api has returned and its frame is gone
LeaveRotate(p) ==
    /\ original_index' = [original_index EXCEPT ![p] = 0]
    /\ rot_i' = [rot_i EXCEPT ![p] = 0]
    /\ next_index' = [next_index EXCEPT ![p] = 0]
    /\ rot_ret' = [rot_ret EXCEPT ![p] = FALSE]
    /\ ret_to' = [ret_to EXCEPT ![p] = "none"]

\* except Exception as e: last_error = e; msg = str(e).lower()
\*     if "quota" in msg or "rate" in msg or "429" in msg:
\*         if not self.gemini_manager.rotate_to_next_api(): break
\*     else:
\*         if not self.gemini_manager.rotate_to_next_api(): break
\* up to the call of rotate_to_next_api in the branch taken
Except(p, e) ==
    /\ last_error' = [last_error EXCEPT ![p] = e]
    /\ current_index' = [current_index EXCEPT ![p] = 0]
    /\ current_key' = [current_key EXCEPT ![p] = NoneVal]
    /\ IF HasQuotaMarker(e.msg)
       THEN EnterRotate(p, "except_quota")
       ELSE EnterRotate(p, "except_other")

\* ------------------------------------------------- rotate_to_next_api
\* mutant: range(len(self.api_keys) - 1), the starting credential is not
\* probed again
RotateNext_short(p) ==
    /\ pc[p] = "rot_for"
    /\ IF rot_i[p] < N - 1
       THEN /\ rot_i' = [rot_i EXCEPT ![p] = @ + 1]
            /\ next_index' = [next_index EXCEPT ![p] = (current_api_index + 1) % N]
            /\ pc' = [pc EXCEPT ![p] = "rot_set"]
            /\ UNCHANGED rot_ret
       ELSE /\ rot_ret' = [rot_ret EXCEPT ![p] = FALSE]
            /\ pc' = [pc EXCEPT ![p] = ret_to[p]]
            /\ UNCHANGED <<rot_i, next_index>>
    /\ UNCHANGED <<mgr, clock, attempt, last_error, current_index, current_key,
                   response, original_index, ret_to, outcome>>

\* mutant: next_index = self.current_api_index + 1, without the modulo
RotateNext_nowrap(p) ==
    /\ pc[p] = "rot_for"
    /\ IF rot_i[p] < N
       THEN /\ rot_i' = [rot_i EXCEPT ![p] = @ + 1]
            /\ next_index' = [next_index EXCEPT ![p] = current_api_index + 1]
            /\ pc' = [pc EXCEPT ![p] = "rot_set"]
            /\ UNCHANGED rot_ret
       ELSE /\ rot_ret' = [rot_ret EXCEPT ![p] = FALSE]
            /\ pc' = [pc EXCEPT ![p] = ret_to[p]]
            /\ UNCHANGED <<rot_i, next_index>>
    /\ UNCHANGED <<mgr, clock, attempt, last_error, current_index, current_key,
                   response, original_index, ret_to, outcome>>

\* for _ in range(len(self.api_keys)):
\*     next_index = (self.current_api_index + 1) % len(self.api_keys)
\* and, the range used up: return False
RotateNext(p) ==
    /\ pc[p] = "rot_for"
    /\ IF rot_i[p] < N
       THEN /\ rot_i' = [rot_i EXCEPT ![p] = @ + 1]
            /\ next_index' = [next_index EXCEPT ![p] = (current_api_index + 1) % N]
            /\ pc' = [pc EXCEPT ![p] = "rot_set"]
            /\ UNCHANGED rot_ret
       ELSE /\ rot_ret' = [rot_ret EXCEPT ![p] = FALSE]
            /\ pc' = [pc EXCEPT ![p] = ret_to[p]]
            /\ UNCHANGED <<rot_i, next_index>>
    /\ UNCHANGED <<mgr, clock, attempt, last_error, current_index, current_key,
                   response, original_index, ret_to, outcome>>

\* self.current_api_index = next_index
RotateSet(p) ==
    /\ pc[p] = "rot_set"
    /\ current_api_index' = next_index[p]
    /\ pc' = [pc EXCEPT ![p] = "rot_probe"]
    /\ UNCHANGED <<api_keys, config_error, api_request_history, clock, locals>>

\* mutant: plain round-robin, the next credential is taken unprobed
RotateProbe_unchecked(p) ==
    /\ pc[p] = "rot_probe"
    /\ rot_ret' = [rot_ret EXCEPT ![p] = TRUE]
    /\ pc' = [pc EXCEPT ![p] = ret_to[p]]
    /\ UNCHANGED <<mgr, clock, attempt, last_error, current_index, current_key,
                   response, rot_i, original_index, next_index, ret_to, outcome>>

\* if not self.is_quota_exceeded(next_index): return True
RotateProbe(p) ==
    /\ pc[p] = "rot_probe"
    /\ IF ~is_quota_exceeded(next_index[p])
       THEN /\ rot_ret' = [rot_ret EXCEPT ![p] = TRUE]
            /\ pc' = [pc EXCEPT ![p] = ret_to[p]]
       ELSE /\ pc' = [pc EXCEPT ![p] = "rot_for"]
            /\ UNCHANGED rot_ret
    /\ UNCHANGED <<mgr, clock, attempt, last_error, current_index, current_key,
                   response, rot_i, original_index, next_index, ret_to, outcome>>

\* ------------------------------------------------ _invoke_with_gemini
\* mutant: the cursor is put back to 0 at the start of every invocation
Invoke_resets(p) ==
    /\ ~config_error
    /\ pc[p] = "idle"
    /\ ForLoop(p, NoneErr)
    /\ current_api_index' = 0
    /\ UNCHANGED <<api_keys, config_error, api_request_history, clock,
                   last_error, current_index, current_key, response,
                   rot_i, original_index, next_index, rot_ret, ret_to>>

\* a caller enters: max_retries = len(api_keys); last_error = None; for ...
Invoke(p) ==
    /\ ~config_error
    /\ pc[p] = "idle"
    /\ ForLoop(p, NoneErr)
    /\ UNCHANGED <<mgr, clock, last_error, current_index, current_key, response,
                   rot_i, original_index, next_index, rot_ret, ret_to>>

\* current_index = self.gemini_manager.current_api_index
ReadIndex(p) ==
    /\ pc[p] = "read_index"
    /\ current_index' = [current_index EXCEPT ![p] = current_api_index]
    /\ pc' = [pc EXCEPT ![p] = "read_key"]
    /\ UNCHANGED <<mgr, clock, attempt, last_error, current_key, response,
                   rot_i, original_index, next_index, rot_ret, ret_to, outcome>>

\* current_key = self.gemini_manager.get_current_api_key()
ReadKey(p) ==
    /\ pc[p] = "read_key"
    /\ current_key' = [current_key EXCEPT ![p] = get_current_api_key]
    /\ pc' = [pc EXCEPT ![p] = "quota_check"]
    /\ UNCHANGED <<mgr, clock, attempt, last_error, current_index, response,
                   rot_i, original_index, next_index, rot_ret, ret_to, outcome>>

\* mutant: no quota pre-check before the backend call
QuotaCheck_skipped(p) ==
    /\ pc[p] = "quota_check"
    /\ pc' = [pc EXCEPT ![p] = "call"]
    /\ UNCHANGED <<mgr, clock, attempt, last_error, current_index, current_key,
                   response, rot_i, original_index, next_index, rot_ret, ret_to,
                   outcome>>

\* mutant: the quota check trims the log it counts to the entries inside
\* the window
QuotaCheck_prunes(p) ==
    /\ pc[p] = "quota_check"
    /\ api_request_history' = [api_request_history EXCEPT ![current_index[p]] =
           SelectSeq(@, LAMBDA t : t > clock - API_QUOTA_WINDOW)]
    /\ IF is_quota_exceeded(current_index[p])
       THEN /\ EnterRotate(p, "quota_rotated")
            /\ current_index' = [current_index EXCEPT ![p] = 0]
            /\ current_key' = [current_key EXCEPT ![p] = NoneVal]
       ELSE /\ pc' = [pc EXCEPT ![p] = "call"]
            /\ UNCHANGED <<current_index, current_key, rot_i, original_index, ret_to>>
    /\ UNCHANGED <<api_keys, config_error, current_api_index, clock, attempt,
                   last_error, response, next_index, rot_ret, outcome>>

\* if self.gemini_manager.is_quota_exceeded(current_index):
\*     if not self.gemini_manager.rotate_to_next_api(): ...
QuotaCheck(p) ==
    /\ pc[p] = "quota_check"
    /\ IF is_quota_exceeded(current_index[p])
       THEN /\ EnterRotate(p, "quota_rotated")
            /\ current_index' = [current_index EXCEPT ![p] = 0]
            /\ current_key' = [current_key EXCEPT ![p] = NoneVal]
       ELSE /\ pc' = [pc EXCEPT ![p] = "call"]
            /\ UNCHANGED <<current_index, current_key, rot_i, original_index, ret_to>>
    /\ UNCHANGED <<mgr, clock, attempt, last_error, response, next_index,
                   rot_ret, outcome>>

\* mutant: after a rotation by the quota pre-check the same iteration is
\* run again, the loop counter does not advance
QuotaRotated_not_counted(p) ==
    /\ pc[p] = "quota_rotated"
    /\ IF ~rot_ret[p]
       THEN /\ Except(p, [msg |-> AllExceededMsg, attempt |-> attempt[p]])
            /\ next_index' = [next_index EXCEPT ![p] = 0]
            /\ rot_ret' = [rot_ret EXCEPT ![p] = FALSE]
            /\ UNCHANGED <<attempt, outcome>>
       ELSE /\ pc' = [pc EXCEPT ![p] = "read_index"]
            /\ LeaveRotate(p)
            /\ UNCHANGED <<attempt, outcome, last_error, current_index, current_key>>
    /\ UNCHANGED <<mgr, clock, response>>

\* rotate_to_next_api() has returned to the quota pre-check:
\*     if not ...: raise Exception("All Gemini APIs have exceeded quota")
\*     continue
\* The raise is inside the try block: the except clause of the same
\* iteration catches it.
QuotaRotated(p) ==
    /\ pc[p] = "quota_rotated"
    /\ IF ~rot_ret[p]
       THEN /\ Except(p, [msg |-> AllExceededMsg, attempt |-> attempt[p]])
            /\ next_index' = [next_index EXCEPT ![p] = 0]
            /\ rot_ret' = [rot_ret EXCEPT ![p] = FALSE]
            /\ UNCHANGED <<attempt, outcome>>
       ELSE /\ ForLoop(p, last_error[p])
            /\ LeaveRotate(p)
            /\ UNCHANGED <<last_error, current_index, current_key>>
    /\ UNCHANGED <<mgr, clock, response>>

\* response = llm.invoke(messages) under google_api_key=current_key:
\* the backend answers
CallSucceeds(p) ==
    /\ pc[p] = "call"
    /\ response' = [response EXCEPT ![p] = [key |-> current_key[p], attempt |-> attempt[p]]]
    /\ current_key' = [current_key EXCEPT ![p] = NoneVal]
    /\ pc' = [pc EXCEPT ![p] = "record"]
    /\ UNCHANGED <<mgr, clock, attempt, last_error, current_index,
                   rot_i, original_index, next_index, rot_ret, ret_to, outcome>>

\* mutant: the request is recorded before the backend call, so a call that
\* raises has been recorded
CallFails_recorded(p) ==
    /\ pc[p] = "call"
    /\ \E m \in BackendErrors : Except(p, [msg |-> m, attempt |-> attempt[p]])
    /\ api_request_history' = record_request(current_index[p])
    /\ UNCHANGED <<api_keys, config_error, current_api_index, clock, attempt,
                   response, next_index, rot_ret, outcome>>

\* response = llm.invoke(messages): the backend call raises, and the
\* except clause handles the exception
CallFails(p) ==
    /\ pc[p] = "call"
    /\ \E m \in BackendErrors : Except(p, [msg |-> m, attempt |-> attempt[p]])
    /\ UNCHANGED <<mgr, clock, attempt, response, next_index, rot_ret, outcome>>

\* self.gemini_manager.record_request(current_index); return response
Record(p) ==
    /\ pc[p] = "record"
    /\ api_request_history' = record_request(current_index[p])
    /\ outcome' = [outcome EXCEPT ![p] =
           [kind |-> "returned", response |-> response[p], error |-> NoneErr]]
    /\ pc' = [pc EXCEPT ![p] = "done"]
    /\ UNCHANGED <<api_keys, config_error, current_api_index, clock, attempt,
                   last_error, current_index, current_key, response, rot_i,
                   original_index, next_index, rot_ret, ret_to>>

\* mutant: the else branch of the except clause gives up without retrying
ExceptRotated_other_breaks(p) ==
    /\ pc[p] \in {"except_quota", "except_other"}
    /\ IF ~rot_ret[p] \/ pc[p] = "except_other"
       THEN AfterLoop(p, last_error[p])
       ELSE ForLoop(p, last_error[p])
    /\ LeaveRotate(p)
    /\ UNCHANGED <<mgr, clock, last_error, current_index, current_key, response>>

\* rotate_to_next_api() has returned to the except clause (either branch):
\*     if not ...: break
ExceptRotated(p) ==
    /\ pc[p] \in {"except_quota", "except_other"}
    /\ IF ~rot_ret[p]
       THEN AfterLoop(p, last_error[p])
       ELSE ForLoop(p, last_error[p])
    /\ LeaveRotate(p)
    /\ UNCHANGED <<mgr, clock, last_error, current_index, current_key, response>>

\* the caller has the result; the frame of the invocation is gone
Finish(p) ==
    /\ pc[p] = "done"
    /\ pc' = [pc EXCEPT ![p] = "idle"]
    /\ attempt' = [attempt EXCEPT ![p] = 0]
    /\ last_error' = [last_error EXCEPT ![p] = NoneErr]
    /\ current_index' = [current_index EXCEPT ![p] = 0]
    /\ current_key' = [current_key EXCEPT ![p] = NoneVal]
    /\ response' = [response EXCEPT ![p] = NoResponse]
    /\ outcome' = [outcome EXCEPT ![p] = NoOutcome]
    /\ UNCHANGED <<mgr, clock, rot_i, original_index, next_index, rot_ret, ret_to>>

\* one step of a running invocation
Run(p) ==
    \/ ReadIndex(p)
    \/ ReadKey(p)
    \/ QuotaCheck(p)
    \/ QuotaRotated(p)
    \/ RotateNext(p)
    \/ RotateSet(p)
    \/ RotateProbe(p)
    \/ CallSucceeds(p)
    \/ CallFails(p)
    \/ Record(p)
    \/ ExceptRotated(p)
    \/ Finish(p)

\* ------------------------------------------------------ history variables
\* What a step of caller p adds to the history variables.  They are written
\* here and read by the properties only; no action of the code reads them.
InRotate(l) == l \in {"rot_for", "rot_set", "rot_probe"}

Observe(p) ==
    /\ calls' = [calls EXCEPT ![p] =
           IF pc[p] = "call"
           THEN Append(@, [key |-> current_key[p], index |-> current_index[p],
                           ok |-> (pc'[p] = "record"),
                           err |-> IF pc'[p] = "record" THEN NoneErr
                                   ELSE last_error'[p]])
           ELSE IF pc'[p] = "idle" THEN <<>> ELSE @]
    /\ probes' = [probes EXCEPT ![p] =
           IF pc[p] = "rot_probe"
           THEN Append(@, [index |-> next_index[p],
                           exceeded |-> is_quota_exceeded(next_index[p])])
           ELSE IF InRotate(pc[p]) THEN @ ELSE <<>>]
    /\ rot_free' = [rot_free EXCEPT ![p] =
           IF InRotate(pc[p]) THEN @
           ELSE IF InRotate(pc'[p]) THEN FreeNow ELSE {}]
    /\ inv_cursor' = [inv_cursor EXCEPT ![p] =
           IF pc[p] = "idle" THEN current_api_index
           ELSE IF pc'[p] = "idle" THEN 0 ELSE @]
    /\ inv_free' = [inv_free EXCEPT ![p] =
           IF pc[p] = "idle" THEN FreeNow ELSE IF pc'[p] = "idle" THEN {} ELSE @]
    /\ inv_history' = [inv_history EXCEPT ![p] =
           IF pc[p] = "idle" THEN api_request_history
           ELSE IF pc'[p] = "idle" THEN <<>> ELSE @]
    /\ inv_exhausted' = [inv_exhausted EXCEPT ![p] =
           IF pc[p] = "quota_rotated" /\ ~rot_ret[p] THEN attempt[p]
           ELSE IF pc'[p] = "idle" THEN 0 ELSE @]
    /\ skips' = [skips EXCEPT ![p] =
           IF pc[p] = "quota_rotated"
           THEN Append(@, [attempt |-> attempt[p], rotated |-> rot_ret[p]])
           ELSE IF pc'[p] = "idle" THEN <<>> ELSE @]
    /\ left_cursor' =
           IF pc[p] # "done" /\ pc'[p] = "done"
           THEN current_api_index' ELSE left_cursor
    /\ left_history' =
           IF pc[p] # "done" /\ pc'[p] = "done"
           THEN api_request_history' ELSE left_history

\* ------------------------------------------------------- specifications
AllIdle == \A q \in Procs : pc[q] = "idle"

\* Invocations run one at a time: a caller enters only when no other runs.
Clock == Tick /\ UNCHANGED <<ghosts, started, env_keys>>
InvokeAlone(p) ==
    AllIdle /\ Invoke(p) /\ Observe(p) /\ env_keys' = <<>> /\ UNCHANGED started
Step(p) == Run(p) /\ Observe(p) /\ UNCHANGED <<started, env_keys>>

Next ==
    \/ Clock
    \/ \E p \in Procs : InvokeAlone(p)
    \/ \E p \in Procs : Step(p)

Spec == Init /\ [][Next]_vars

\* Callers enter whenever they like: the API layer serves requests from a
\* thread pool and no lock guards the manager.  Every statement that reads
\* or writes the manager is a step of its own.
InvokeAnytime(p) ==
    /\ started < MaxConcInvocations
    /\ started' = started + 1
    /\ Invoke(p)
    /\ env_keys' = <<>>
    /\ UNCHANGED ghosts

ConcStep(p) == Run(p) /\ UNCHANGED <<ghosts, started, env_keys>>

ConcNext ==
    \/ Clock
    \/ \E p \in Procs : InvokeAnytime(p)
    \/ \E p \in Procs : ConcStep(p)

\* GEMINI_API_KEY_3 is not set
ConcInit == Init /\ \A k \in 1 .. Len(api_keys) : api_keys[k] # KeyOfSlot(NumKeySlots)

ConcSpec == ConcInit /\ [][ConcNext]_vars

\* a running invocation takes its next step (weak fairness: a thread that
\* can run is eventually scheduled, and every backend call returns or raises)
FairSpec == Spec /\ \A p \in Procs : WF_vars(Step(p))

\* ------------------------------------------------------------ properties
Returned(p) == pc[p] = "done" /\ outcome[p].kind = "returned"
Raised(p) == pc[p] = "done" /\ outcome[p].kind = "raised"
AtRotateReturn(p) == pc[p] \in {"quota_rotated", "except_quota", "except_other"}
CallsUnder(p, i) == {k \in 1 .. Len(calls[p]) : calls[p][k].index = i}
FailedCalls(p) == {k \in 1 .. Len(calls[p]) : ~calls[p][k].ok}

\* C1: with invocations one at a time, a caller about to dispatch a backend
\* call holds the index and the key of one credential, and that credential
\* is not over quota; a credential that is over quota has received no
\* backend call in the running invocation.  With three credentials, the
\* cursor on credential 0 at entry, credential 0 over quota and credential 1
\* under quota, the first backend call goes to credential 1.
C1_CallOnlyUnderQuota ==
    \A p \in Procs :
        /\ pc[p] = "call" =>
               /\ current_key[p] = api_keys[current_index[p] + 1]
               /\ ~is_quota_exceeded(current_index[p])
        /\ pc[p] \notin {"idle", "done"} =>
               \A i \in Idx : is_quota_exceeded(i) => CallsUnder(p, i) = {}
        /\ ( /\ N = 3
             /\ pc[p] \notin {"idle", "done"}
             /\ inv_cursor[p] = 0
             /\ is_quota_exceeded(0)
             /\ 1 \in inv_free[p]
             /\ calls[p] # <<>> )
               => /\ calls[p][1].index = 1
                  /\ calls[p][1].key = api_keys[2]

\* C1 witness: three credentials, the cursor on credential 0 which is over
\* quota; the backend call has gone to credential 1, none to 0.
C1_Witness ==
    \E p \in Procs :
        /\ N = 3
        /\ pc[p] = "record"
        /\ inv_cursor[p] = 0
        /\ is_quota_exceeded(0)
        /\ Len(calls[p]) = 1
        /\ calls[p][1].index = 1
        /\ calls[p][1].key = api_keys[2]

\* C2: with invocations one at a time, no credential ever has more than
\* API_QUOTA_LIMIT entries of its log inside the window.
C2_UsageWithinLimit ==
    \A i \in Idx : get_quota_usage(i) <= API_QUOTA_LIMIT

\* C2 witness: a credential with a full budget, met by a quota check, while
\* an older entry of its log has already left the window.
C2_Witness ==
    \E p \in Procs :
        /\ pc[p] = "quota_check"
        /\ get_quota_usage(current_index[p]) = API_QUOTA_LIMIT
        /\ Len(api_request_history[current_index[p]]) > API_QUOTA_LIMIT

\* C3: an invocation begins at most N loop iterations, ends with a response
\* returned or with an exception raised (never both, never neither), and
\* does end.
OutcomeShape(p) ==
    /\ attempt[p] <= N
    /\ pc[p] # "done" => outcome[p] = NoOutcome
    /\ pc[p] = "done" =>
           \/ /\ outcome[p].kind = "returned"
              /\ outcome[p].response # NoResponse
              /\ outcome[p].error = NoneErr
           \/ /\ outcome[p].kind = "raised"
              /\ outcome[p].response = NoResponse
              /\ outcome[p].error # NoneErr

C3_InvokeTerminates ==
    /\ [](\A p \in Procs : OutcomeShape(p))
    /\ \A p \in Procs : (pc[p] # "idle") ~> (pc[p] = "done")

\* C3 witness: an invocation that used all N = 3 iterations and raised.
C3_Witness ==
    \E p \in Procs : N = 3 /\ Raised(p) /\ attempt[p] = N /\ Len(calls[p]) = N

\* C4: with invocations one at a time, when an invocation raises, every
\* credential that was under quota when it began has received a backend
\* call in it, and that call failed.
C4_RaisesOnlyWhenAllTried ==
    \A p \in Procs :
        Raised(p) =>
            \A i \in inv_free[p] : CallsUnder(p, i) \cap FailedCalls(p) # {}

\* C4 witness: three credentials, the cursor on one over quota, the two
\* others under quota, both called, both failed.
C4_Witness ==
    \E p \in Procs :
        /\ N = 3
        /\ Raised(p)
        /\ Cardinality(inv_free[p]) = 2
        /\ inv_cursor[p] \notin inv_free[p]
        /\ Len(calls[p]) = 2

\* C5: once the quota check's rotate has returned False, the invocation
\* begins no further iteration, makes no backend call, and raises the "all
\* exceeded" exception.
C5_ExhaustedAborts ==
    \A p \in Procs :
        inv_exhausted[p] # 0 =>
            /\ attempt[p] = inv_exhausted[p]
            /\ pc[p] \notin {"read_index", "read_key", "quota_check", "call", "record"}
            /\ pc[p] = "done" =>
                   /\ outcome[p].kind = "raised"
                   /\ outcome[p].error.msg = AllExceededMsg

\* C6: when an invocation returns, its successful backend call is its last
\* and only successful one, the response is that call's, the logs are the
\* logs at entry with one timestamp appended to the log of the credential
\* of that call, and the cursor is on that credential.
C6_SuccessRecordsOnce ==
    \A p \in Procs :
        Returned(p) =>
            LET n == Len(calls[p])
                c == calls[p][n].index
            IN  /\ n >= 1
                /\ calls[p][n].ok
                /\ \A k \in 1 .. (n - 1) : ~calls[p][k].ok
                /\ calls[p][n].key = api_keys[c + 1]
                /\ outcome[p].response.key = api_keys[c + 1]
                /\ outcome[p].response.attempt = attempt[p]
                /\ \A i \in Idx \ {c} : api_request_history[i] = inv_history[p][i]
                /\ Len(api_request_history[c]) = Len(inv_history[p][c]) + 1
                /\ SubSeq(api_request_history[c], 1, Len(inv_history[p][c]))
                       = inv_history[p][c]
                /\ current_api_index = c

\* C6 witness: a return after a rotation, on a credential other than the
\* one the cursor was on at entry.
C6_Witness ==
    \E p \in Procs :
        /\ Returned(p)
        /\ current_api_index # inv_cursor[p]
        /\ Len(calls[p]) = 1

\* C7: while every backend call of an invocation has failed, the logs are
\* the logs at entry; and with two credentials, credential 0's call failing
\* and credential 1's succeeding, the invocation returns credential 1's
\* response, log 0 is as at entry and log 1 has one entry more.
C7_FailedCallNeverRecords ==
    \A p \in Procs :
        /\ (pc[p] # "idle" /\ FailedCalls(p) = 1 .. Len(calls[p]))
               => api_request_history = inv_history[p]
        /\ ( /\ N = 2
             /\ pc[p] = "done"
             /\ Len(calls[p]) = 2
             /\ calls[p][1].index = 0 /\ ~calls[p][1].ok
             /\ calls[p][2].index = 1 /\ calls[p][2].ok )
               => /\ outcome[p].kind = "returned"
                  /\ outcome[p].response.key = api_keys[2]
                  /\ api_request_history[0] = inv_history[p][0]
                  /\ Len(api_request_history[1]) = Len(inv_history[p][1]) + 1

\* C7 witness: the scenario with two credentials.
C7_Witness ==
    \E p \in Procs :
        /\ N = 2
        /\ Returned(p)
        /\ Len(calls[p]) = 2
        /\ calls[p][1].index = 0 /\ ~calls[p][1].ok
        /\ calls[p][2].index = 1 /\ calls[p][2].ok

\* C8: with two callers and no lock, the entries of a credential's log
\* inside the window together with the callers past its quota check can
\* exceed API_QUOTA_LIMIT, by the one caller that raced and by no more.
PastCheck(i) == {p \in Procs : pc[p] \in {"call", "record"} /\ current_index[p] = i}

C8_RaceOvershoot ==
    \A i \in Idx :
        get_quota_usage(i) + Cardinality(PastCheck(i))
            <= API_QUOTA_LIMIT + Cardinality(Procs) - 1

\* C8 witness: both callers read the same credential, passed its quota
\* check, were answered and recorded; its usage is above the limit.
C8_Witness ==
    \E i \in Idx :
        /\ get_quota_usage(i) > API_QUOTA_LIMIT
        /\ \A p \in Procs :
               /\ Returned(p)
               /\ current_index[p] = i
               /\ outcome[p].response.key = api_keys[i + 1]

\* least k >= 1 such that credential (from + k) mod N is in the set free
FirstFree(from, free) ==
    CHOOSE k \in 1 .. N :
        /\ (from + k) % N \in free
        /\ \A j \in 1 .. (k - 1) : (from + j) % N \notin free

\* C9: a rotate called while some credential is under quota returns True
\* with the cursor on the credential it probed last, which is under quota;
\* it probed original+1, original+2, ... (mod N) in this order, every
\* credential before the last was over quota, and it stopped no later than
\* at the first credential that was under quota at the call.  With no
\* credential over quota the cursor is (original + 1) mod N.
C9_RotateSelectsFirstFree ==
    \A p \in Procs :
        (AtRotateReturn(p) /\ rot_free[p] # {}) =>
            LET n == Len(probes[p]) IN
            /\ rot_ret[p]
            /\ n >= 1
            /\ \A k \in 1 .. n : probes[p][k].index = (original_index[p] + k) % N
            /\ \A k \in 1 .. (n - 1) :
                   probes[p][k].exceeded /\ probes[p][k].index \notin rot_free[p]
            /\ ~probes[p][n].exceeded
            /\ current_api_index = probes[p][n].index
            /\ ~is_quota_exceeded(current_api_index)
            /\ n <= FirstFree(original_index[p], rot_free[p])
            /\ rot_free[p] = Idx => current_api_index = (original_index[p] + 1) % N
            /\ (rot_free[p] = Idx /\ N > 1) => current_api_index # original_index[p]
            /\ (rot_free[p] = Idx /\ N = 1) => current_api_index = original_index[p]

\* C9 witness: three credentials, the rotate skipped one over quota.
C9_Witness ==
    \E p \in Procs :
        /\ N = 3
        /\ AtRotateReturn(p)
        /\ rot_ret[p]
        /\ Len(probes[p]) = 2

\* C10: rotate returns False exactly when each of the N credentials was
\* probed and found over quota; then it made N probes, one per credential,
\* every credential was over quota at the call, and the cursor is on the
\* last probed credential, which is the one it was on at the call.  A rotate
\* never probes more than N times, and one that ends with every credential
\* over quota returns False.
C10_RotateFalseIffAllExceeded ==
    \A p \in Procs :
        /\ Len(probes[p]) <= N
        /\ AtRotateReturn(p) =>
               /\ ~rot_ret[p] <=>
                      /\ Len(probes[p]) = N
                      /\ \A k \in 1 .. N : probes[p][k].exceeded
               /\ ~rot_ret[p] =>
                      /\ {probes[p][k].index : k \in 1 .. N} = Idx
                      /\ rot_free[p] = {}
                      /\ current_api_index = probes[p][N].index
                      /\ current_api_index = original_index[p]
               /\ FreeNow = {} => ~rot_ret[p]

\* C10 witness: three credentials, all over quota, rotate returned False.
C10_Witness ==
    \E p \in Procs :
        /\ N = 3
        /\ AtRotateReturn(p)
        /\ ~rot_ret[p]
        /\ Len(probes[p]) = 3

\* C11: rotate_to_next_api never puts the cursor on a credential that is
\* over quota at the moment of the assignment, in no iteration of its scan,
\* and so not when it returns False either.
C11_NeverSelectsExceeded ==
    [][\A p \in Procs :
          (pc[p] = "rot_set" /\ pc'[p] = "rot_probe")
              => ~(is_quota_exceeded(current_api_index))']_vars

\* the only credential was called once, in the first attempt, and the call
\* raised the "429 rate limit" error
SingleFirst429(p) ==
    /\ N = 1
    /\ Len(calls[p]) = 1
    /\ calls[p][1].err = [msg |-> RateLimitMsg, attempt |-> 1]

\* C12 (as stated): with one credential, under quota, whose backend call
\* raises "429 rate limit" in the first attempt, the rotate of the except
\* clause returns False and the invocation raises that backend error.
C12_SingleKeyRotateFalse ==
    \A p \in Procs :
        SingleFirst429(p) =>
            /\ AtRotateReturn(p) => ~rot_ret[p]
            /\ pc[p] = "done" =>
                   /\ outcome[p].kind = "raised"
                   /\ outcome[p].error = calls[p][1].err

\* C12 (amended): in that case the rotate of the except clause probes the
\* only credential, finds it under quota and returns True with the cursor on
\* it; the loop has used its one iteration, no further attempt or backend
\* call follows, nothing is recorded, and the invocation raises the backend
\* error of the call, not a generic one.
C12_SingleKeyReraises ==
    \A p \in Procs :
        SingleFirst429(p) =>
            /\ attempt[p] = 1
            /\ pc[p] \in {"rot_for", "rot_set", "rot_probe", "except_quota", "done"}
            /\ AtRotateReturn(p) =>
                   /\ rot_ret[p]
                   /\ Len(probes[p]) = 1
                   /\ current_api_index = 0
            /\ api_request_history = inv_history[p]
            /\ pc[p] = "done" =>
                   /\ outcome[p].kind = "raised"
                   /\ outcome[p].error = calls[p][1].err
                   /\ outcome[p].error.msg # GenericMsg

\* C12 witness: the invocation has raised the "429 rate limit" error of its
\* only backend call.
C12_Witness ==
    \E p \in Procs :
        /\ SingleFirst429(p)
        /\ Raised(p)
        /\ outcome[p].error.msg = RateLimitMsg

\* C13: an invocation that raises without its quota check having given up
\* raises the exception of its last failed backend call; and no invocation
\* raises the generic "could not get response" exception.
C13_RaisesLastFailure ==
    \A p \in Procs :
        /\ (Raised(p) /\ inv_exhausted[p] = 0) =>
               /\ calls[p] # <<>>
               /\ outcome[p].error = calls[p][Len(calls[p])].err
        /\ pc[p] = "done" => outcome[p].error.msg # GenericMsg

\* C14: what the except clause does with an exception does not depend on
\* whether its message carries a quota marker.  A failed backend call, with
\* or without marker, calls rotate_to_next_api from the cursor as it is and
\* changes neither the cursor nor the logs nor the attempt count; when the
\* rotate returns, the invocation goes on to the next iteration or ends by
\* raising, and which of the two is decided by the rotate's result and the
\* attempt count alone, whichever branch called the rotate.
UniformStep(p) ==
    /\ (pc[p] = "call" /\ pc'[p] \notin {"call", "record"}) =>
           /\ pc'[p] = "rot_for"
           /\ ret_to'[p] =
                  IF HasQuotaMarker(last_error'[p].msg)
                  THEN "except_quota" ELSE "except_other"
           /\ original_index'[p] = current_api_index
           /\ rot_i'[p] = 0
           /\ mgr' = mgr
           /\ attempt' = attempt
    /\ (pc[p] \in {"except_quota", "except_other"} /\ pc'[p] # pc[p]) =>
           /\ pc'[p] = IF rot_ret[p] /\ attempt[p] < N THEN "read_index" ELSE "done"
           /\ attempt'[p] = IF rot_ret[p] /\ attempt[p] < N
                            THEN attempt[p] + 1 ELSE attempt[p]
           /\ pc'[p] = "done" => outcome'[p].kind = "raised"
           /\ mgr' = mgr

C14_UniformErrorHandling ==
    [][\A p \in Procs : UniformStep(p)]_vars

\* C14 witness: three credentials; the first backend call failed with a
\* quota marker, the second without, and after each the invocation rotated
\* and went on: it is beginning its third attempt.
C14_Witness ==
    \E p \in Procs :
        /\ N = 3
        /\ pc[p] = "read_index"
        /\ attempt[p] = 3
        /\ Len(calls[p]) = 2
        /\ HasQuotaMarker(calls[p][1].err.msg)
        /\ ~HasQuotaMarker(calls[p][2].err.msg)

\* entries of credential i's log younger than the window at the present
\* clock (an entry aged exactly API_QUOTA_WINDOW is not among them)
InWindow(i) ==
    Cardinality({k \in 1 .. Len(api_request_history[i]) :
                    clock - api_request_history[i][k] < API_QUOTA_WINDOW})

\* C15: at every clock value get_quota_usage(i) is the number of entries of
\* log i younger than the window, and is_quota_exceeded(i) holds exactly
\* when that number has reached API_QUOTA_LIMIT; the quota pre-check and the
\* probe of rotate_to_next_api decide by the count at the clock of their own
\* step.
C15_UsageCountsWindow ==
    /\ [](\A i \in Idx :
             /\ get_quota_usage(i) = InWindow(i)
             /\ is_quota_exceeded(i) <=> (InWindow(i) >= API_QUOTA_LIMIT))
    /\ [][\A p \in Procs :
             /\ (pc[p] = "quota_check" /\ pc'[p] # pc[p]) =>
                    (pc'[p] = "call" <=> InWindow(current_index[p]) < API_QUOTA_LIMIT)
             /\ (pc[p] = "rot_probe" /\ pc'[p] # pc[p]) =>
                    (pc'[p] = ret_to[p] <=> InWindow(next_index[p]) < API_QUOTA_LIMIT)
         ]_vars

\* C15 witness: the quota pre-check has let through a credential whose log
\* holds API_QUOTA_LIMIT entries, one of them aged exactly the window.
C15_Witness ==
    \E p \in Procs :
        /\ pc[p] = "call"
        /\ Len(api_request_history[current_index[p]]) = API_QUOTA_LIMIT
        /\ \E k \in 1 .. Len(api_request_history[current_index[p]]) :
               clock - api_request_history[current_index[p]][k] = API_QUOTA_WINDOW
        /\ get_quota_usage(current_index[p]) = API_QUOTA_LIMIT - 1

\* the newest entry of a non-empty log (entries are appended in clock order)
LastRecord(i) == api_request_history[i][Len(api_request_history[i])]

\* C16: the step that records a request for credential i raises
\* get_quota_usage(i) by exactly one and leaves the usage of every other
\* credential as it was; a step that advances the clock raises no usage; and
\* whenever API_QUOTA_WINDOW has passed since the newest entry of log i,
\* get_quota_usage(i) is 0 and is_quota_exceeded(i) is false.
C16_UsageRisesAndAgesOut ==
    /\ [](\A i \in Idx :
             (api_request_history[i] # <<>>
                 /\ clock - LastRecord(i) >= API_QUOTA_WINDOW)
                 => (get_quota_usage(i) = 0 /\ ~is_quota_exceeded(i)))
    /\ [][/\ \A p \in Procs :
                (pc[p] = "record" /\ pc'[p] # pc[p]) =>
                    \A i \in Idx :
                        (get_quota_usage(i))' =
                            IF i = current_index[p]
                            THEN get_quota_usage(i) + 1
                            ELSE get_quota_usage(i)
          /\ clock' # clock =>
                \A i \in Idx : (get_quota_usage(i))' <= get_quota_usage(i)
         ]_vars

\* C16 witness: a credential that had used up its budget was selected again
\* after the window had passed and a further request was recorded on it.
C16_Witness ==
    \E p \in Procs :
        /\ Returned(p)
        /\ Len(api_request_history[current_index[p]]) = API_QUOTA_LIMIT + 1
        /\ clock - api_request_history[current_index[p]][API_QUOTA_LIMIT]
               >= API_QUOTA_WINDOW
        /\ get_quota_usage(current_index[p]) = 1

\* C17: in every state of a constructed manager, callers interleaving as
\* they like, the cursor is one of 0 .. N-1 and get_current_api_key() is one
\* of the loaded credentials; so are the index and the key a caller holds.
C17_CursorInRange ==
    ~config_error =>
        /\ current_api_index \in Idx
        /\ \E k \in 1 .. N : get_current_api_key = api_keys[k]
        /\ Truthy(get_current_api_key)
        /\ \A p \in Procs :
               /\ next_index[p] \in Idx
               /\ current_index[p] \in Idx
               /\ pc[p] \in {"quota_check", "call"} =>
                      \E k \in 1 .. N : current_key[p] = api_keys[k]

\* C17 witness: two callers are inside rotate_to_next_api at once, each has
\* assigned the cursor, and the cursor has wrapped round to 0.
C17_Witness ==
    /\ N = 2
    /\ current_api_index = 0
    /\ \A p \in Procs : pc[p] = "rot_probe"
    /\ \E p, q \in Procs : next_index[p] = 1 /\ next_index[q] = 0

\* C18: with invocations one at a time, an invocation finds the cursor and
\* the logs as the previous invocation left them (as construction left
\* them, for the first one): between two invocations neither changes,
\* entering changes neither, and the first attempt reads that cursor.
C18_CursorSticky ==
    /\ AllIdle =>
           /\ current_api_index = left_cursor
           /\ api_request_history = left_history
    /\ \A p \in Procs :
           /\ pc[p] \notin {"idle", "done"} =>
                  /\ inv_cursor[p] = left_cursor
                  /\ inv_history[p] = left_history
           /\ (pc[p] = "read_key" /\ attempt[p] = 1) =>
                  current_index[p] = left_cursor

\* C18 witness: the first attempt of an invocation has read a cursor other
\* than 0, on a credential whose log is empty.  An invocation that returns
\* leaves the cursor on the credential it recorded on, so the previous
\* invocation raised, and left the cursor there.
C18_Witness ==
    \E p \in Procs :
        /\ pc[p] = "read_key"
        /\ attempt[p] = 1
        /\ current_index[p] # 0
        /\ api_request_history[current_index[p]] = <<>>

\* the slots of the constructor's list that hold a secret
Kept == {s \in 1 .. Len(env_keys) : env_keys[s] # NoneVal /\ env_keys[s] # Blank}
\* the k-th of them, in the order of the list
KthKept(k) == CHOOSE s \in Kept : Cardinality({t \in Kept : t <= s}) = k

\* C19: after construction from a list of optional secrets, the manager
\* holds the entries that are neither missing nor blank, all of them and no
\* other, in the order of the list; construction has failed exactly when
\* there is none; otherwise the cursor is 0 and there is one empty log for
\* each position 0 .. N-1 of the kept list.
C19_ConstructionFilters ==
    env_keys # <<>> =>
        /\ N = Cardinality(Kept)
        /\ \A k \in 1 .. N : api_keys[k] = env_keys[KthKept(k)]
        /\ config_error <=> (Kept = {})
        /\ ~config_error =>
               /\ current_api_index = 0
               /\ DOMAIN api_request_history = 0 .. (Cardinality(Kept) - 1)
               /\ \A i \in DOMAIN api_request_history :
                      api_request_history[i] = <<>>

\* C19 witness: a list with a blank entry between two secrets; the two
\* secrets are kept in their order, with logs 0 and 1.
C19_Witness ==
    /\ env_keys = <<KeyOfSlot(1), Blank, KeyOfSlot(3)>>
    /\ api_keys = <<KeyOfSlot(1), KeyOfSlot(3)>>
    /\ DOMAIN api_request_history = {0, 1}
    /\ ~config_error

\* C19 witness of the failure: a list with nothing but missing and blank
\* entries; construction has raised.
C19_WitnessError ==
    /\ env_keys = <<NoneVal, Blank, NoneVal>>
    /\ config_error

\* C20: a step changes the cursor only if it is the assignment inside
\* rotate_to_next_api, and changes a log only if it is record_request, which
\* appends one timestamp to the log of its argument and touches no other
\* entry and no other log; the list of credentials never changes.  The
\* steps of rotate_to_next_api leave the logs alone; reading the current
\* key and checking the quota leave the whole manager alone; and
\* get_current_api_key() gives the same credential before and after every
\* step that is not that assignment.
OwnedStep ==
    /\ api_keys' = api_keys
    /\ current_api_index' # current_api_index =>
           \E p \in Procs :
               /\ pc[p] = "rot_set" /\ pc'[p] = "rot_probe"
               /\ current_api_index' = next_index[p]
    /\ api_request_history' # api_request_history =>
           \E p \in Procs :
               /\ pc[p] = "record" /\ pc'[p] = "done"
               /\ api_request_history' =
                      [api_request_history EXCEPT ![current_index[p]] = Append(@, clock)]
    /\ \A p \in Procs :
           /\ (InRotate(pc[p]) /\ pc'[p] # pc[p]) =>
                  api_request_history' = api_request_history
           /\ (pc[p] \in {"read_index", "read_key", "quota_check"} /\ pc'[p] # pc[p]) =>
                  mgr' = mgr
           /\ (pc[p] = "read_key" /\ pc'[p] # pc[p]) =>
                  current_key'[p] = get_current_api_key
    /\ (~config_error /\ \A p \in Procs : ~(pc[p] = "rot_set" /\ pc'[p] = "rot_probe")) =>
           get_current_api_key' = get_current_api_key

C20_StateOwnership == [][OwnedStep]_vars

\* C20 witness: rotate_to_next_api has just moved the cursor, while a log
\* holds an entry that has left the window next to a later one.
C20_Witness ==
    \E p \in Procs :
        /\ pc[p] = "rot_probe"
        /\ current_api_index # original_index[p]
        /\ \E i \in Idx :
               /\ Len(api_request_history[i]) = API_QUOTA_LIMIT + 1
               /\ get_quota_usage(i) = API_QUOTA_LIMIT

\* the quota checks of the invocation whose rotate returned True
RotatedSkips(p) == {k \in 1 .. Len(skips[p]) : skips[p][k].rotated}

\* C21: in an invocation the backend calls and the quota checks that
\* rotated are together no more than the loop iterations begun, which are no
\* more than N; an invocation whose first quota check finds the credential
\* over quota makes at most N - 1 backend calls.
C21_RotationUsesAttempt ==
    \A p \in Procs :
        /\ Len(calls[p]) + Cardinality(RotatedSkips(p)) <= attempt[p]
        /\ attempt[p] <= N
        /\ Len(calls[p]) + Cardinality(RotatedSkips(p)) <= N
        /\ (skips[p] # <<>> /\ skips[p][1].attempt = 1) => Len(calls[p]) <= N - 1

\* C21 witness: three credentials; the first quota check rotated, the two
\* iterations left were both backend calls, and the invocation has ended.
C21_Witness ==
    \E p \in Procs :
        /\ N = 3
        /\ pc[p] = "done"
        /\ Len(skips[p]) = 1
        /\ skips[p][1].attempt = 1
        /\ skips[p][1].rotated
        /\ Len(calls[p]) = 2

\* C22: in one invocation no credential is the target of two backend calls:
\* the call that follows a failed call and a rotate that returned True goes
\* to a credential that has had no call in this invocation.
C22_NoCredentialCalledTwice ==
    \A p \in Procs :
        \A j, k \in 1 .. Len(calls[p]) :
            j # k => calls[p][j].index # calls[p][k].index

\* the rotate that has returned was called by the except clause for an
\* exception raised by the backend call
AfterBackendFailure(p) ==
    /\ pc[p] \in {"except_quota", "except_other"}
    /\ last_error[p].msg \in BackendErrors

\* C23: with invocations one at a time, the rotate called after a backend
\* call has raised returns True; so the break of the except clause is not
\* taken for a backend failure, and an invocation that raises a backend
\* error has used all N iterations of its loop.
C23_RotateAfterFailureSucceeds ==
    \A p \in Procs :
        /\ AfterBackendFailure(p) =>
               /\ rot_ret[p]
               /\ ~is_quota_exceeded(current_api_index)
        /\ (Raised(p) /\ outcome[p].error.msg \in BackendErrors) => attempt[p] = N

\* C23 witness: three credentials, the two others over quota: the rotate
\* after the failed call has probed all three and returned True on the
\* credential that failed.
C23_Witness ==
    \E p \in Procs :
        /\ N = 3
        /\ AfterBackendFailure(p)
        /\ rot_ret[p]
        /\ Len(probes[p]) = 3
        /\ current_api_index = original_index[p]

\* C24: callers interleaving as they like, the index and the key a caller
\* holds in an attempt are those of one credential: the credential whose
\* quota is checked and whose log is appended is the credential whose key
\* goes to the backend call.
C24_IndexAndKeyAgree ==
    \A p \in Procs :
        pc[p] \in {"quota_check", "call"} =>
            current_key[p] = api_keys[current_index[p] + 1]

\* C25: with two callers and no lock, in every state every credential has
\* at most API_QUOTA_LIMIT + 1 entries of its log inside the window.
C25_OvershootAtMostOne ==
    \A i \in Idx : get_quota_usage(i) <= API_QUOTA_LIMIT + 1

\* C25 witness: a credential is one request over its limit, and the quota
\* check of a later invocation has found it so and rotated away from it.
C25_Witness ==
    \E i \in Idx, p \in Procs :
        /\ get_quota_usage(i) = API_QUOTA_LIMIT + 1
        /\ pc[p] = "quota_rotated"
        /\ rot_ret[p]
        /\ original_index[p] = i
        /\ current_api_index # i

TypeOK ==
    /\ current_api_index \in Nat
    /\ clock \in 0 .. MaxClock
    /\ \A p \in Procs : attempt[p] \in 0 .. N

====
